---- MODULE Spec2Model ----
(***************************************************************************)
(* ValidatorSet of angine/types/validator_set.go as a state machine.       *)
(*                                                                         *)
(* Go pointers are kept as pointers: every *Validator is an object id into *)
(* `mem` (the program's memory); a ValidatorSet holds a sequence of ids    *)
(* and a proposer id, so aliasing (valSet.proposer = mostest, Copy()       *)
(* carrying the proposer pointer over) is as in the program.  Addresses are*)
(* fixed-length byte strings compared with bytes.Compare; they are the     *)
(* integers 1..MaxAddr with the integer order.  A public key is identified *)
(* with the address of its validator.                                      *)
(***************************************************************************)
EXTENDS Integers, Sequences, FiniteSets, TLC

\* ------------------------------------------------------------------ bounds
MaxAddr == 3       \* addresses 1..MaxAddr in the registry specification
MaxPower == 2      \* voting powers 1..MaxPower
MaxTimes == 2      \* IncrementAccum(times), times in 1..MaxTimes
MaxAccum == 4      \* |accum| is kept within MaxAccum by the guards
MaxOps == 3        \* calls made on the sets after construction
MaxSteps == 12     \* single rotation steps in the rotation specification
MaxVals == 4       \* validators in the commit specification
MaxDefects == 1    \* precommits of a commit that fail a check

Nil == 0
Addrs == 1..MaxAddr
Powers == 1..MaxPower
InAccums == {0, 1}
SetIds == 1..2
ObjIds == 1..(4 * (MaxAddr + MaxVals))

\* type Validator: the fields this file reads and writes
Val(a, p, c) == [Address |-> a, VotingPower |-> p, Accum |-> c]
NoVal == Val(0, 0, 0)

\* type ValidatorSet
NoSet == [alive |-> FALSE, Validators |-> <<>>, proposer |-> Nil, totalVotingPower |-> 0]
MkSet(vals, prop, total) ==
  [alive |-> TRUE, Validators |-> vals, proposer |-> prop, totalVotingPower |-> total]

VARIABLES
  mem,       \* object id -> Validator record (NoVal: unallocated)
  vs,        \* set id -> ValidatorSet
  ret,       \* the last call and what it returned
  nops,      \* calls made so far
  panicked,  \* a call ended in a run-time panic
  filled,    \* set id -> what last wrote the proposer cache (history variable)
  picks,     \* the proposers of the single rotation steps so far (history variable)
  handle     \* the validator object the caller holds, and the call it went through

vars == <<mem, vs, ret, nops, panicked, filled, picks, handle>>

\* ------------------------------------------------------------ Go run time
Range(s) == {s[i] : i \in 1..Len(s)}

\* new(Validator): the lowest id not in use
NewObj(h) == CHOOSE i \in ObjIds : h[i] = NoVal /\ \A j \in ObjIds : h[j] = NoVal => i <= j

\* (v *Validator) Copy(): a fresh object with the same fields
CopyVal(h, v) == LET n == NewObj(h) IN [h |-> [h EXCEPT ![n] = v], id |-> n]

\* Garbage collection and the choice of the ids are no part of the program's
\* behaviour: an object no set points to is gone, and the live objects are
\* numbered in the order the sets reach them (members of set 1, of set 2, then
\* the proposers that are no member).
Members(sets) == sets[1].Validators \o sets[2].Validators

Reached(sets) ==
  LET m == Members(sets)
      p1 == IF sets[1].proposer \in Range(m) \cup {Nil} THEN <<>> ELSE <<sets[1].proposer>>
      p2 == IF sets[2].proposer \in Range(m \o p1) \cup {Nil} THEN <<>> ELSE <<sets[2].proposer>>
  IN m \o p1 \o p2

Collect(h, sets) ==
  LET order == Reached(sets)
  IN [i \in ObjIds |-> IF i <= Len(order) THEN h[order[i]] ELSE NoVal]

Renumber(sets) ==
  LET order == Reached(sets)
      pos(id) == IF id = Nil THEN Nil ELSE CHOOSE i \in 1..Len(order) : order[i] = id
  IN [k \in SetIds |->
        [sets[k] EXCEPT !.Validators = [i \in 1..Len(@) |-> pos(@[i])],
                        !.proposer = pos(@)]]

\* ------------------------------------------------------------- lookups
\* sort.Search(n, f) with f(i) = bytes.Compare(address, Validators[i].Address) <= 0;
\* indices are Go's (0-based), Validators[i] is vals[i + 1]
\* mutant: strict comparison in the search predicate
SearchPredStrict(h, vals, address, i) == address < h[vals[i + 1]].Address

SearchPred(h, vals, address, i) == address <= h[vals[i + 1]].Address

RECURSIVE SearchLoop(_, _, _, _, _)
SearchLoop(h, vals, address, i, j) ==
  IF i < j
  THEN LET m == (i + j) \div 2
       IN IF ~SearchPred(h, vals, address, m)
          THEN SearchLoop(h, vals, address, m + 1, j)
          ELSE SearchLoop(h, vals, address, i, m)
  ELSE i

Search(h, vals, address) == SearchLoop(h, vals, address, 0, Len(vals))

Size(s) == Len(s.Validators)

HasAddress(h, s, address) ==
  LET idx == Search(h, s.Validators, address)
  IN idx # Size(s) /\ h[s.Validators[idx + 1]].Address = address

\* returns (index, copy of the validator) or (0, nil); val is the record of the copy
GetByAddress(h, s, address) ==
  LET idx == Search(h, s.Validators, address)
  IN IF idx # Size(s) /\ h[s.Validators[idx + 1]].Address = address
     THEN [index |-> idx, found |-> TRUE, val |-> h[s.Validators[idx + 1]]]
     ELSE [index |-> 0, found |-> FALSE, val |-> NoVal]

\* defined for 0 <= index < Size(s); out of range is an index panic
GetByIndex(h, s, index) ==
  [address |-> h[s.Validators[index + 1]].Address, val |-> h[s.Validators[index + 1]]]

\* ------------------------------------------------------------- caches
RECURSIVE SumPower(_, _, _)
SumPower(h, vals, acc) ==
  IF vals = <<>> THEN acc
  ELSE SumPower(h, Tail(vals), acc + h[Head(vals)].VotingPower)

\* TotalVotingPower(): fills the cache when it is 0
TotalVotingPower(h, s) ==
  LET t == IF s.totalVotingPower = 0
           THEN SumPower(h, s.Validators, s.totalVotingPower)
           ELSE s.totalVotingPower
  IN [s |-> [s EXCEPT !.totalVotingPower = t], total |-> t]

\* (v *Validator) CompareAccum(other): the validator with the greater accum,
\* on equal accum the one with the smaller address
CompareAccum(h, v, other) ==
  IF v = Nil THEN other
  ELSE IF h[v].Accum > h[other].Accum THEN v
  ELSE IF h[v].Accum < h[other].Accum THEN other
  ELSE IF h[v].Address <= h[other].Address THEN v
  ELSE other

RECURSIVE ScanProposer(_, _, _)
ScanProposer(h, vals, p) ==
  IF vals = <<>> THEN p
  ELSE ScanProposer(h, Tail(vals), CompareAccum(h, p, Head(vals)))

\* Proposer(): nil for an empty set, else a copy of the cached proposer, which a
\* scan fills when it is nil
Proposer(h, s) ==
  IF Size(s) = 0 THEN [s |-> s, val |-> NoVal]
  ELSE LET p == IF s.proposer = Nil
                THEN ScanProposer(h, s.Validators, s.proposer)
                ELSE s.proposer
       IN [s |-> [s EXCEPT !.proposer = p], val |-> h[p]]

\* ------------------------------------------------------------- mutators
\* mutants: a mutator that leaves one of the caches in place
InvalidateKeepsTotal(s, vals) == [s EXCEPT !.Validators = vals, !.proposer = Nil]
InvalidateKeepsProposer(s, vals) == [s EXCEPT !.Validators = vals, !.totalVotingPower = 0]

Invalidate(s, vals) == [s EXCEPT !.Validators = vals, !.proposer = Nil, !.totalVotingPower = 0]

\* mutant: the new validator is appended instead of inserted at idx
InsertAtEnd(vals, idx, id) == Append(vals, id)

InsertAt(vals, idx, id) ==
  SubSeq(vals, 1, idx) \o <<id>> \o SubSeq(vals, idx + 1, Len(vals))

\* mutant: an address that is present is overwritten instead of rejected
AddOrReplace(h, s, val) ==
  LET c == CopyVal(h, val)
      idx == Search(c.h, s.Validators, val.Address)
  IN IF idx = Size(s)
     THEN [h |-> c.h, s |-> Invalidate(s, Append(s.Validators, c.id)), ok |-> TRUE]
     ELSE IF c.h[s.Validators[idx + 1]].Address = val.Address
     THEN [h |-> c.h, s |-> Invalidate(s, [s.Validators EXCEPT ![idx + 1] = c.id]), ok |-> FALSE]
     ELSE [h |-> c.h, s |-> Invalidate(s, InsertAt(s.Validators, idx, c.id)), ok |-> TRUE]

\* Add(val): val is the caller's record, the set stores a copy
Add(h, s, val) ==
  LET c == CopyVal(h, val)
      idx == Search(c.h, s.Validators, val.Address)
  IN IF idx = Size(s)
     THEN [h |-> c.h, s |-> Invalidate(s, Append(s.Validators, c.id)), ok |-> TRUE]
     ELSE IF c.h[s.Validators[idx + 1]].Address = val.Address
     THEN [h |-> c.h, s |-> s, ok |-> FALSE]
     ELSE [h |-> c.h, s |-> Invalidate(s, InsertAt(s.Validators, idx, c.id)), ok |-> TRUE]

Update(h, s, val) ==
  LET g == GetByAddress(h, s, val.Address)
  IN IF ~g.found
     THEN [h |-> h, s |-> s, ok |-> FALSE]
     ELSE LET c == CopyVal(h, val)
          IN [h |-> c.h,
              s |-> Invalidate(s, [s.Validators EXCEPT ![g.index + 1] = c.id]),
              ok |-> TRUE]

\* Remove(address): returns the removed validator itself (no copy)
Remove(h, s, address) ==
  LET idx == Search(h, s.Validators, address)
  IN IF idx = Size(s) \/ h[s.Validators[idx + 1]].Address # address
     THEN [h |-> h, s |-> s, ok |-> FALSE, val |-> NoVal]
     ELSE LET removedVal == s.Validators[idx + 1]
              head == SubSeq(s.Validators, 1, idx)
              newValidators == IF idx + 1 < Size(s)
                               THEN head \o SubSeq(s.Validators, idx + 2, Size(s))
                               ELSE head
          IN [h |-> h, s |-> Invalidate(s, newValidators), ok |-> TRUE, val |-> h[removedVal]]

\* ---------------------------------------------------------- Copy
RECURSIVE CopyAll(_, _, _)
CopyAll(h, vals, out) ==
  IF vals = <<>> THEN [h |-> h, vals |-> out]
  ELSE LET c == CopyVal(h, h[Head(vals)])
       IN CopyAll(c.h, Tail(vals), Append(out, c.id))

\* Copy(): the members are copied, the proposer pointer and the total are carried over
Copy(h, s) ==
  LET c == CopyAll(h, s.Validators, <<>>)
  IN [h |-> c.h, s |-> MkSet(c.vals, s.proposer, s.totalVotingPower)]

\* ------------------------------------------------- the priority queue
\* Heap of go-common over container/heap: a binary heap in a slice of items
\* (value, priority); pq[p] is the item at Go index p - 1.
\* accumComparable.Less: the greater accum comes first
\* mutant: the comparison the other way round
LessSmaller(ac, o) == ac < o

Less(ac, o) == ac > o

Swap(q, i, j) == [q EXCEPT ![i] = q[j], ![j] = q[i]]

RECURSIVE up(_, _)
up(pq, j) ==
  IF j = 1 THEN pq
  ELSE LET i == j \div 2
       IN IF ~Less(pq[j].priority, pq[i].priority) THEN pq
          ELSE up(Swap(pq, i, j), i)

RECURSIVE down(_, _)
down(pq, i) ==
  LET n == Len(pq)
      j1 == 2 * i
  IN IF j1 > n THEN pq
     ELSE LET j == IF j1 + 1 <= n /\ Less(pq[j1 + 1].priority, pq[j1].priority)
                   THEN j1 + 1 ELSE j1
          IN IF ~Less(pq[j].priority, pq[i].priority) THEN pq
             ELSE down(Swap(pq, i, j), j)

HeapPush(pq, value, priority) ==
  up(Append(pq, [value |-> value, priority |-> priority]), Len(pq) + 1)

HeapPeek(pq) == IF pq = <<>> THEN Nil ELSE pq[1].value

\* Update re-keys the top item and restores the heap order (heap.Fix at index 0)
HeapUpdate(pq, value, priority) ==
  down([pq EXCEPT ![1] = [value |-> value, priority |-> priority]], 1)

\* ------------------------------------------------------------ rotation
\* mutant: the accums grow by the voting power once, whatever `times` is
RECURSIVE PushAllOnce(_, _, _, _)
PushAllOnce(h, vals, times, pq) ==
  IF vals = <<>> THEN [h |-> h, pq |-> pq]
  ELSE LET val == Head(vals)
           accum == h[val].Accum + h[val].VotingPower
       IN PushAllOnce([h EXCEPT ![val].Accum = accum], Tail(vals), times,
                      HeapPush(pq, val, accum))

RECURSIVE PushAll(_, _, _, _)
PushAll(h, vals, times, pq) ==
  IF vals = <<>> THEN [h |-> h, pq |-> pq]
  ELSE LET val == Head(vals)
           accum == h[val].Accum + h[val].VotingPower * times
       IN PushAll([h EXCEPT ![val].Accum = accum], Tail(vals), times,
                  HeapPush(pq, val, accum))

\* mutant: the proposer is charged its own voting power instead of the total
RECURSIVE DecrementOwnPower(_, _, _, _, _)
DecrementOwnPower(h, s, pq, i, times) ==
  IF i >= times THEN [h |-> h, s |-> s, panic |-> FALSE]
  ELSE IF HeapPeek(pq) = Nil THEN [h |-> h, s |-> s, panic |-> TRUE]
  ELSE LET mostest == HeapPeek(pq)
           s1 == IF i = times - 1 THEN [s EXCEPT !.proposer = mostest] ELSE s
           accum == h[mostest].Accum - h[mostest].VotingPower
       IN DecrementOwnPower([h EXCEPT ![mostest].Accum = accum], s1,
                            HeapUpdate(pq, mostest, accum), i + 1, times)

\* the loop "for i := 0; i < int(times); i++"; Peek() of an empty heap is nil and
\* the type assertion on it panics
RECURSIVE Decrement(_, _, _, _, _)
Decrement(h, s, pq, i, times) ==
  IF i >= times THEN [h |-> h, s |-> s, panic |-> FALSE]
  ELSE IF HeapPeek(pq) = Nil THEN [h |-> h, s |-> s, panic |-> TRUE]
  ELSE LET mostest == HeapPeek(pq)
           s1 == IF i = times - 1 THEN [s EXCEPT !.proposer = mostest] ELSE s
           t == TotalVotingPower(h, s1)
           accum == h[mostest].Accum - t.total
       IN Decrement([h EXCEPT ![mostest].Accum = accum], t.s,
                    HeapUpdate(pq, mostest, accum), i + 1, times)

IncrementAccum(h, s, times) ==
  LET p == PushAll(h, s.Validators, times, <<>>)
  IN Decrement(p.h, s, p.pq, 0, times)

\* ------------------------------------------------------- construction
\* ValidatorsByAddress.Less
AddressLess(h, a, b) == h[a].Address < h[b].Address

\* sort.Sort on a short slice is an insertion sort
RECURSIVE SortInner(_, _, _)
SortInner(h, vals, j) ==
  IF j > 1 /\ AddressLess(h, vals[j], vals[j - 1])
  THEN SortInner(h, Swap(vals, j, j - 1), j - 1)
  ELSE vals

RECURSIVE SortOuter(_, _, _)
SortOuter(h, vals, i) ==
  IF i > Len(vals) THEN vals ELSE SortOuter(h, SortInner(h, vals, i), i + 1)

SortByAddress(h, vals) == SortOuter(h, vals, 2)

\* genValidatorSet(vals): vals is the caller's list of records
RECURSIVE CopyList(_, _, _)
CopyList(h, list, out) ==
  IF list = <<>> THEN [h |-> h, vals |-> out]
  ELSE LET c == CopyVal(h, Head(list))
       IN CopyList(c.h, Tail(list), Append(out, c.id))

genValidatorSet(h, list) ==
  LET c == CopyList(h, list, <<>>)
  IN [h |-> c.h, s |-> MkSet(SortByAddress(c.h, c.vals), Nil, 0)]

\* NewValidatorSet(vals); isNil: vals is the nil slice
NewValidatorSet(h, list, isNil) ==
  LET g == genValidatorSet(h, list)
  IN IF isNil THEN [h |-> g.h, s |-> g.s, panic |-> FALSE]
     ELSE IncrementAccum(g.h, g.s, 1)

\* ================================================= the registry specification
\* One set built by NewValidatorSet, then any calls on it and on copies of it.
Ret(op, k, arg, ok, val, n) ==
  [op |-> op, k |-> k, arg |-> arg, ok |-> ok, val |-> val, n |-> n, err |-> ""]

EmptyMem == [i \in ObjIds |-> NoVal]
NoHandle == [id |-> Nil, from |-> "none"]
NoSets == [k \in SetIds |-> NoSet]

RECURSIVE Perms(_)
Perms(S) ==
  IF S = {} THEN {<<>>}
  ELSE UNION {{<<x>> \o p : p \in Perms(S \ {x})} : x \in S}

\* the caller's lists: distinct addresses in any order, accum 0
InputLists(addrs, powers) ==
  UNION {UNION {{[i \in 1..Len(p) |-> Val(p[i], pw[p[i]], 0)] : pw \in [A -> powers]}
                : p \in Perms(A)} : A \in SUBSET addrs}

Construct(list, isNil) ==
  LET r == NewValidatorSet(EmptyMem, list, isNil)
      sets == [NoSets EXCEPT ![1] = r.s]
  IN /\ vs = Renumber(sets)
     /\ mem = Collect(r.h, sets)
     /\ panicked = r.panic
     /\ ret = Ret("NewValidatorSet", 1, NoVal, ~r.panic, NoVal, 0)
     /\ filled = [k \in SetIds |-> IF k = 1 /\ ~isNil /\ ~r.panic THEN "rotation" ELSE "none"]
     /\ picks = IF isNil \/ r.panic THEN <<>> ELSE <<r.h[r.s.proposer].Address>>
     /\ nops = 0
     /\ handle = NoHandle

Init ==
  \E list \in InputLists(Addrs, Powers) : \E isNil \in {list = <<>>, FALSE} :
    Construct(list, isNil)

CanCall(k) == ~panicked /\ nops < MaxOps /\ vs[k].alive

\* the state after a call on set k that left memory h and the set s
Done(k, h, s, r, f) ==
  /\ vs' = Renumber([vs EXCEPT ![k] = s])
  /\ mem' = Collect(h, [vs EXCEPT ![k] = s])
  /\ ret' = r
  /\ filled' = [filled EXCEPT ![k] = f]
  /\ nops' = nops + 1
  /\ UNCHANGED <<panicked, picks, handle>>

DoAdd(k, val) ==
  /\ CanCall(k)
  /\ LET r == Add(mem, vs[k], val)
     IN Done(k, r.h, r.s, Ret("Add", k, val, r.ok, NoVal, 0),
             IF r.ok THEN "none" ELSE filled[k])

DoUpdate(k, val) ==
  /\ CanCall(k)
  /\ LET r == Update(mem, vs[k], val)
     IN Done(k, r.h, r.s, Ret("Update", k, val, r.ok, NoVal, 0),
             IF r.ok THEN "none" ELSE filled[k])

DoRemove(k, address) ==
  /\ CanCall(k)
  /\ LET r == Remove(mem, vs[k], address)
     IN Done(k, r.h, r.s, Ret("Remove", k, Val(address, 0, 0), r.ok, r.val, 0),
             IF r.ok THEN "none" ELSE filled[k])

InRange(h, s) ==
  \A i \in 1..Size(s) : h[s.Validators[i]].Accum \in (0 - MaxAccum)..MaxAccum

DoIncrementAccum(k, times) ==
  /\ CanCall(k)
  /\ LET r == IncrementAccum(mem, vs[k], times)
     IN /\ InRange(r.h, r.s)
        /\ vs' = Renumber([vs EXCEPT ![k] = r.s])
        /\ mem' = Collect(r.h, [vs EXCEPT ![k] = r.s])
        /\ ret' = Ret("IncrementAccum", k, NoVal, ~r.panic, NoVal, times)
        /\ filled' = [filled EXCEPT ![k] = IF r.panic THEN @ ELSE "rotation"]
        /\ nops' = nops + 1
        /\ panicked' = r.panic
        /\ UNCHANGED <<picks, handle>>

DoCopy(k, dst) ==
  /\ CanCall(k)
  /\ dst # k
  /\ LET r == Copy(mem, vs[k])
     IN /\ vs' = Renumber([vs EXCEPT ![dst] = r.s])
        /\ mem' = Collect(r.h, [vs EXCEPT ![dst] = r.s])
        /\ ret' = Ret("Copy", k, NoVal, TRUE, NoVal, dst)
        /\ filled' = [filled EXCEPT ![dst] = IF r.s.proposer = Nil THEN "none" ELSE "carried"]
        /\ nops' = nops + 1
        /\ UNCHANGED <<panicked, picks, handle>>

DoTotalVotingPower(k) ==
  /\ CanCall(k)
  /\ LET r == TotalVotingPower(mem, vs[k])
     IN Done(k, mem, r.s, Ret("TotalVotingPower", k, NoVal, TRUE, NoVal, r.total), filled[k])

DoProposer(k) ==
  /\ CanCall(k)
  /\ LET r == Proposer(mem, vs[k])
     IN Done(k, mem, r.s, Ret("Proposer", k, NoVal, r.val # NoVal, r.val, 0),
             IF vs[k].proposer = Nil /\ r.s.proposer # Nil THEN "scan" ELSE filled[k])

InVals == {Val(a, p, c) : a \in Addrs, p \in Powers, c \in InAccums}

Next ==
  \/ \E k \in SetIds, val \in InVals : DoAdd(k, val)
  \/ \E k \in SetIds, val \in InVals : DoUpdate(k, val)
  \/ \E k \in SetIds, a \in Addrs : DoRemove(k, a)
  \/ \E k \in SetIds, times \in 1..MaxTimes : DoIncrementAccum(k, times)
  \/ \E k \in SetIds, dst \in SetIds : DoCopy(k, dst)
  \/ \E k \in SetIds : DoTotalVotingPower(k)
  \/ \E k \in SetIds : DoProposer(k)

Spec == Init /\ [][Next]_vars

\* ------------------------------------------------------ VerifyCommit
\* A vote: Height, Round, Type, BlockID and the Signature, which is the address
\* of the validator whose key signed the vote's sign bytes.
Precommit(height, round, type, blockID, signer) ==
  [exist |-> TRUE, Height |-> height, Round |-> round, Type |-> type,
   BlockID |-> blockID, Signature |-> signer]
Absent ==
  [exist |-> FALSE, Height |-> 0, Round |-> 0, Type |-> "", BlockID |-> 0, Signature |-> 0]

\* CommitCache: its Height(), its Round() and its Precommits
Commit(height, round, precommits) ==
  [height |-> height, round |-> round, Precommits |-> precommits]

\* val.PubKey.VerifyBytes(SignBytes(chainID, pdata), signature)
VerifyBytes(val, precommit) == precommit.Signature = val.Address

\* mutants of the checks on one precommit
VerifyPrecommitBlockFirst(h, s, blockID, height, round, idx, pdata) ==
  IF pdata.Height # height THEN [err |-> "height", power |-> 0]
  ELSE IF pdata.Round # round THEN [err |-> "round", power |-> 0]
  ELSE IF pdata.Type # "Precommit" THEN [err |-> "type", power |-> 0]
  ELSE LET val == GetByIndex(h, s, idx).val
       IN IF blockID # pdata.BlockID THEN [err |-> "", power |-> 0]
          ELSE IF ~VerifyBytes(val, pdata) THEN [err |-> "signature", power |-> 0]
          ELSE [err |-> "", power |-> val.VotingPower]

VerifyPrecommitAnyType(h, s, blockID, height, round, idx, pdata) ==
  IF pdata.Height # height THEN [err |-> "height", power |-> 0]
  ELSE IF pdata.Round # round THEN [err |-> "round", power |-> 0]
  ELSE LET val == GetByIndex(h, s, idx).val
       IN IF ~VerifyBytes(val, pdata) THEN [err |-> "signature", power |-> 0]
          ELSE IF blockID # pdata.BlockID THEN [err |-> "", power |-> 0]
          ELSE [err |-> "", power |-> val.VotingPower]

\* the body of the loop for a precommit that exists: the error it ends the call
\* with, or the voting power it adds to the tally
VerifyPrecommit(h, s, blockID, height, round, idx, pdata) ==
  IF pdata.Height # height THEN [err |-> "height", power |-> 0]
  ELSE IF pdata.Round # round THEN [err |-> "round", power |-> 0]
  ELSE IF pdata.Type # "Precommit" THEN [err |-> "type", power |-> 0]
  ELSE LET val == GetByIndex(h, s, idx).val
       IN IF ~VerifyBytes(val, pdata) THEN [err |-> "signature", power |-> 0]
          ELSE IF blockID # pdata.BlockID THEN [err |-> "", power |-> 0]
          ELSE [err |-> "", power |-> val.VotingPower]

RECURSIVE VerifyLoop(_, _, _, _, _, _, _, _)
VerifyLoop(h, s, blockID, height, round, precommits, idx, talliedVotingPower) ==
  IF idx >= Len(precommits) THEN [err |-> "", tally |-> talliedVotingPower]
  ELSE LET precommit == precommits[idx + 1]
       IN IF ~precommit.exist
          THEN VerifyLoop(h, s, blockID, height, round, precommits, idx + 1,
                          talliedVotingPower)
          ELSE LET v == VerifyPrecommit(h, s, blockID, height, round, idx, precommit)
               IN IF v.err # "" THEN [err |-> v.err, tally |-> talliedVotingPower]
                  ELSE VerifyLoop(h, s, blockID, height, round, precommits, idx + 1,
                                  talliedVotingPower + v.power)

\* mutant: two thirds are enough
EnoughPowerAtTwoThirds(talliedVotingPower, total) == talliedVotingPower >= (total * 2) \div 3

\* talliedVotingPower > valSet.TotalVotingPower()*2/3
EnoughPower(talliedVotingPower, total) == talliedVotingPower > (total * 2) \div 3

\* mutant: the call clears the proposer cache
VerifyCommitDropsProposer(h, s, blockID, height, commit) ==
  IF Size(s) # Len(commit.Precommits) THEN [s |-> s, err |-> "size", tally |-> 0]
  ELSE IF height # commit.height THEN [s |-> s, err |-> "height", tally |-> 0]
  ELSE LET l == VerifyLoop(h, s, blockID, height, commit.round, commit.Precommits, 0, 0)
           t == TotalVotingPower(h, s)
       IN [s |-> [t.s EXCEPT !.proposer = Nil], tally |-> l.tally,
           err |-> IF l.err # "" THEN l.err
                   ELSE IF EnoughPower(l.tally, t.total) THEN "" ELSE "power"]

\* VerifyCommit: err is "" for nil, else the kind of the error; the set comes
\* back with the total voting power cached when the tally was compared
VerifyCommit(h, s, blockID, height, commit) ==
  IF Size(s) # Len(commit.Precommits) THEN [s |-> s, err |-> "size", tally |-> 0]
  ELSE IF height # commit.height THEN [s |-> s, err |-> "height", tally |-> 0]
  ELSE LET l == VerifyLoop(h, s, blockID, height, commit.round, commit.Precommits, 0, 0)
       IN IF l.err # "" THEN [s |-> s, err |-> l.err, tally |-> l.tally]
          ELSE LET t == TotalVotingPower(h, s)
               IN [s |-> t.s, tally |-> l.tally,
                   err |-> IF EnoughPower(l.tally, t.total) THEN "" ELSE "power"]

\* ================================================= the rotation specification
\* One set built by NewValidatorSet from validators with accum 0, then
\* IncrementAccum(1) again and again.
InitRot == Init

RotStep ==
  /\ ~panicked /\ vs[1].alive /\ Len(picks) < MaxSteps
  /\ LET r == IncrementAccum(mem, vs[1], 1)
     IN /\ vs' = Renumber([vs EXCEPT ![1] = r.s])
        /\ mem' = Collect(r.h, [vs EXCEPT ![1] = r.s])
        /\ ret' = Ret("IncrementAccum", 1, NoVal, ~r.panic, NoVal, 1)
        /\ filled' = [filled EXCEPT ![1] = IF r.panic THEN @ ELSE "rotation"]
        /\ picks' = IF r.panic THEN picks ELSE Append(picks, r.h[r.s.proposer].Address)
        /\ panicked' = r.panic
        /\ UNCHANGED <<nops, handle>>

NextRot == RotStep

SpecRot == InitRot /\ [][NextRot]_vars

\* ============================================ the serialization specification
\* encoding/json of []*Validator: an array of objects whose numbers are decimal
\* text.  The array and the objects are a sequence of records; the numbers are
\* sequences of characters.
DigitChars == <<"0", "1", "2", "3", "4", "5", "6", "7", "8", "9">>

RECURSIVE FormatUint(_)
FormatUint(n) ==
  IF n < 10 THEN <<DigitChars[n + 1]>>
  ELSE Append(FormatUint(n \div 10), DigitChars[(n % 10) + 1])

FormatInt(n) == IF n < 0 THEN <<"-">> \o FormatUint(0 - n) ELSE FormatUint(n)

DigitValue(c) == CHOOSE d \in 0..9 : DigitChars[d + 1] = c

RECURSIVE ParseUint(_, _)
ParseUint(q, acc) ==
  IF q = <<>> THEN acc ELSE ParseUint(Tail(q), (10 * acc) + DigitValue(Head(q)))

ParseInt(q) == IF Head(q) = "-" THEN 0 - ParseUint(Tail(q), 0) ELSE ParseUint(q, 0)

\* json.Marshal of a list of validators
Marshal(list) ==
  [i \in 1..Len(list) |->
     [address |-> FormatInt(list[i].Address),
      voting_power |-> FormatInt(list[i].VotingPower),
      accum |-> FormatInt(list[i].Accum)]]

\* json.Unmarshal into []*Validator: a field the object lacks keeps its zero value
Field(o, name) == IF name \in DOMAIN o THEN ParseInt(o[name]) ELSE 0

Unmarshal(data) ==
  [i \in 1..Len(data) |->
     Val(Field(data[i], "address"), Field(data[i], "voting_power"), Field(data[i], "accum"))]

\* mutant: the accum is left out of the text
JSONBytesNoAccum(h, s) ==
  [i \in 1..Size(s) |->
     [address |-> FormatInt(h[s.Validators[i]].Address),
      voting_power |-> FormatInt(h[s.Validators[i]].VotingPower)]]

JSONBytes(h, s) == Marshal([i \in 1..Size(s) |-> h[s.Validators[i]]])

\* data is well-formed JSON: the error branch is not taken
ValSetFromJsonBytes(h, data) == genValidatorSet(h, Unmarshal(data))

\* merkle.SimpleHashFromHashables: the binary tree over the members' hashes; a
\* hash is the term it was computed from
RECURSIVE SimpleHash(_)
SimpleHash(q) ==
  IF Len(q) = 1 THEN <<"leaf", q[1]>>
  ELSE LET n == (Len(q) + 1) \div 2
       IN <<"node", SimpleHash(SubSeq(q, 1, n)), SimpleHash(SubSeq(q, n + 1, Len(q)))>>

Hash(h, s) ==
  IF Size(s) = 0 THEN <<>>
  ELSE SimpleHash([i \in 1..Size(s) |-> h[s.Validators[i]]])

\* the caller's lists: up to MaxAddr validators, any order, addresses may repeat
RECURSIVE AnyLists(_)
AnyLists(n) ==
  IF n = 0 THEN {<<>>}
  ELSE LET shorter == AnyLists(n - 1)
       IN shorter \cup {Append(q, Val(a, p, 0)) : q \in {x \in shorter : Len(x) = n - 1},
                                                  a \in Addrs, p \in Powers}

FromJson(data) ==
  LET r == ValSetFromJsonBytes(EmptyMem, data)
      sets == [NoSets EXCEPT ![1] = r.s]
  IN /\ vs = Renumber(sets)
     /\ mem = Collect(r.h, sets)
     /\ panicked = FALSE
     /\ ret = Ret("ValSetFromJsonBytes", 1, NoVal, TRUE, NoVal, 0)
     /\ filled = [k \in SetIds |-> "none"]
     /\ picks = <<>>
     /\ nops = 0
     /\ handle = NoHandle

InitJ ==
  \E list \in AnyLists(MaxAddr) :
    \/ \E isNil \in {list = <<>>, FALSE} : Construct(list, isNil)
    \/ FromJson(Marshal(list))

\* dst = ValSetFromJsonBytes(k.JSONBytes())
DoRoundTrip(k, dst) ==
  /\ CanCall(k)
  /\ dst # k
  /\ LET r == ValSetFromJsonBytes(mem, JSONBytes(mem, vs[k]))
     IN /\ vs' = Renumber([vs EXCEPT ![dst] = r.s])
        /\ mem' = Collect(r.h, [vs EXCEPT ![dst] = r.s])
        /\ ret' = Ret("ValSetFromJsonBytes", k, NoVal, TRUE, NoVal, dst)
        /\ filled' = [filled EXCEPT ![dst] = "none"]
        /\ nops' = nops + 1
        /\ UNCHANGED <<panicked, picks, handle>>

NextJ ==
  \/ \E a \in Addrs : DoRemove(1, a)
  \/ \E times \in 1..MaxTimes : DoIncrementAccum(1, times)
  \/ DoRoundTrip(1, 2)

SpecJ == InitJ /\ [][NextJ]_vars

\* =================================================== the commit specification
\* One set built by NewValidatorSet or ValSetFromJsonBytes from the validators
\* 1..n, and one call of
\* VerifyCommit for block 1 at height 1 with any commit.
BlockIDs == {1, 2}
Heights == {1, 2}
Rounds == {0, 1}
VoteTypes == {"Prevote", "Precommit"}
ReqBlockIDs == {1}
ReqHeights == {1}
CommitRounds == {0}

\* the precommits a commit may hold in slot i; the signer is validator i or the next one
Slots(i) ==
  {Precommit(hh, r, ty, b, sg) :
     hh \in Heights, r \in Rounds, ty \in VoteTypes, b \in BlockIDs,
     sg \in {i, (i % MaxVals) + 1}}

\* passes the checks on height, round, type and signature of the requested call
Sound(i, p) ==
  /\ p.Height \in ReqHeights /\ p.Round \in CommitRounds
  /\ p.Type = "Precommit" /\ p.Signature = i

\* the slot sequences of length n with at most d precommits that are not sound
RECURSIVE SlotSeqs(_, _)
SlotSeqs(n, d) ==
  IF n = 0 THEN {<<>>}
  ELSE {Append(q, p) : q \in SlotSeqs(n - 1, d),
                       p \in {Absent} \cup {x \in Slots(n) : Sound(n, x)}}
       \cup (IF d = 0 THEN {}
             ELSE {Append(q, p) : q \in SlotSeqs(n - 1, d - 1),
                                  p \in {x \in Slots(n) : ~Sound(n, x)}})

\* the commits of n slots
Commits(n) ==
  {Commit(hh, r, q) : hh \in Heights, r \in CommitRounds, q \in SlotSeqs(n, MaxDefects)}

PrefixLists ==
  UNION {{[i \in 1..n |-> Val(i, pw[i], 0)] : pw \in [1..n -> Powers]} : n \in 0..MaxVals}

InitVC ==
  \E list \in PrefixLists :
    \/ \E isNil \in {list = <<>>, FALSE} : Construct(list, isNil)
    \/ FromJson(Marshal(list))

DoVerifyCommit(blockID, height, commit) ==
  /\ LET r == VerifyCommit(mem, vs[1], blockID, height, commit)
     IN /\ vs' = Renumber([vs EXCEPT ![1] = r.s])
        /\ mem' = Collect(mem, [vs EXCEPT ![1] = r.s])
        /\ ret' = [op |-> "VerifyCommit", k |-> 1,
                   arg |-> [blockID |-> blockID, height |-> height, commit |-> commit],
                   ok |-> r.err = "", val |-> NoVal, n |-> r.tally, err |-> r.err]
        /\ nops' = nops + 1
        /\ UNCHANGED <<panicked, filled, picks, handle>>

\* one call in a run: the set is alive and VerifyCommit has not been called
CanVerify == ~panicked /\ vs[1].alive /\ ret.op # "VerifyCommit"

NextVC ==
  /\ CanVerify
  /\ \E blockID \in ReqBlockIDs, height \in ReqHeights :
       \E n \in 0..MaxVals : \E commit \in Commits(n) :
         DoVerifyCommit(blockID, height, commit)

SpecVC == InitVC /\ [][NextVC]_vars

\* ================================================================ properties
Alive == {k \in SetIds : vs[k].alive}
Member(k, i) == mem[vs[k].Validators[i]]
MemberRecs(k) == {Member(k, i) : i \in 1..Size(vs[k])}
MemberSeq(k) == [i \in 1..Size(vs[k]) |-> Member(k, i)]

RECURSIVE SeqSum(_)
SeqSum(q) == IF q = <<>> THEN 0 ELSE Head(q) + SeqSum(Tail(q))

PowerSum(k) == SeqSum([i \in 1..Size(vs[k]) |-> Member(k, i).VotingPower])

\* the member with the greatest accum, on equal accum the smallest address
Greatest(k, v) ==
  /\ v \in MemberRecs(k)
  /\ \A w \in MemberRecs(k) :
       v.Accum > w.Accum \/ (v.Accum = w.Accum /\ v.Address <= w.Address)

\* C3: after every call the members of every set are strictly sorted by
\* ascending address, so no address occurs twice.
C3_SortedUnique ==
  \A k \in Alive : \A i, j \in 1..Size(vs[k]) :
    i < j => Member(k, i).Address < Member(k, j).Address

C3_Witness ==
  /\ ret.op = "Add" /\ ret.ok /\ Size(vs[ret.k]) = 3
  /\ ret.arg.Address = Member(ret.k, 2).Address

\* C4: in every reachable state TotalVotingPower() returns the sum of the
\* voting powers of the current members.
C4_TotalIsSum ==
  \A k \in Alive : TotalVotingPower(mem, vs[k]).total = PowerSum(k)

\* an Update that changed the sum, on a set whose cache had been filled
C4_Witness ==
  /\ ret.op = "Update" /\ ret.ok /\ nops >= 2
  /\ PowerSum(ret.k) = 5

\* C5 as claimed: Proposer() of a non-empty set is the member that currently
\* has the greatest accum (ties: smallest address).
C5_GreatestNow ==
  \A k \in Alive : Size(vs[k]) > 0 => Greatest(k, Proposer(mem, vs[k]).val)

\* C5 amended: when the cache is empty or was filled by Proposer()'s own scan,
\* Proposer() is the member with the greatest current accum (ties: smallest
\* address); when the cache was filled by a rotation of this set, Proposer()
\* is a current member whose accum plus the total voting power is at least
\* every member's accum (it had the greatest accum when it was charged).
C5_CachedOrGreatest ==
  \A k \in Alive : Size(vs[k]) > 0 =>
    LET v == Proposer(mem, vs[k]).val
    IN /\ filled[k] \in {"none", "scan"} => Greatest(k, v)
       /\ filled[k] = "rotation" =>
            /\ v \in MemberRecs(k)
            /\ \A w \in MemberRecs(k) : v.Accum + PowerSum(k) >= w.Accum

\* a rotation-filled cache whose validator no longer has the greatest accum,
\* and a cache refilled by a scan after a mutation
C5_Witness ==
  /\ filled[1] = "rotation" /\ Size(vs[1]) > 1
  /\ ~Greatest(1, Proposer(mem, vs[1]).val)
  /\ filled[2] = "scan" /\ Size(vs[2]) > 1

\* C6: right after a successful Add, Update or Remove the next Proposer() is
\* nil for an emptied set and otherwise the record of a current member, with
\* the voting power and accum now stored for its address.
C6_ProposerAfterMutation ==
  (ret.op \in {"Add", "Update", "Remove"} /\ ret.ok) =>
    LET v == Proposer(mem, vs[ret.k]).val
    IN IF Size(vs[ret.k]) = 0 THEN v = NoVal ELSE v \in MemberRecs(ret.k)

\* the cached proposer has just been removed from a set that keeps members
C6_Witness ==
  /\ ret.op = "Remove" /\ ret.ok /\ Size(vs[ret.k]) > 0
  /\ filled[ret.k] = "none" /\ nops >= 2
  /\ \A w \in MemberRecs(ret.k) : ret.val.Accum < w.Accum

\* C9: Add of an address that is present, and Update and Remove of an address
\* that is absent, return false and leave the set as it was: the same members
\* with the same voting powers and accums, the same cached total and the same
\* cached proposer.
C9_Step ==
  (ret'.op \in {"Add", "Update", "Remove"} /\ nops' = nops + 1) =>
    LET k == ret'.k
        present == \E i \in 1..Size(vs[k]) : Member(k, i).Address = ret'.arg.Address
        rejected == IF ret'.op = "Add" THEN present ELSE ~present
    IN rejected =>
         /\ ~ret'.ok
         /\ [i \in 1..Size(vs'[k]) |-> mem'[vs'[k].Validators[i]]] = MemberSeq(k)
         /\ vs'[k].totalVotingPower = vs[k].totalVotingPower
         /\ vs'[k].proposer = vs[k].proposer
         /\ vs[k].proposer # Nil => mem'[vs'[k].proposer] = mem[vs[k].proposer]

C9_RejectedIsNoOp == [][C9_Step]_vars

\* a rejected call on a set with both caches filled
C9_Witness ==
  /\ ret.op \in {"Add", "Update", "Remove"} /\ ~ret.ok
  /\ Size(vs[ret.k]) > 0
  /\ vs[ret.k].proposer # Nil /\ vs[ret.k].totalVotingPower # 0

\* C10: for every address a, HasAddress(a) holds exactly when GetByAddress(a)
\* finds a validator, exactly when some member has address a; the index found
\* is the position of that member, and GetByIndex of it has the same address.
C10_LookupConsistent ==
  \A k \in Alive : \A a \in 0..(MaxAddr + 1) :
    LET g == GetByAddress(mem, vs[k], a)
        isMember == \E i \in 1..Size(vs[k]) : Member(k, i).Address = a
    IN /\ HasAddress(mem, vs[k], a) <=> g.found
       /\ g.found <=> isMember
       /\ g.found =>
            /\ g.index \in 0..(Size(vs[k]) - 1)
            /\ Member(k, g.index + 1).Address = a
            /\ g.val = Member(k, g.index + 1)
            /\ GetByIndex(mem, vs[k], g.index).address = a

\* a set of three members after an insertion in the middle, where the binary
\* search takes both branches
C10_Witness ==
  /\ ret.op = "Add" /\ ret.ok /\ Size(vs[ret.k]) = 3
  /\ GetByAddress(mem, vs[ret.k], ret.arg.Address).index = 1
  /\ GetByAddress(mem, vs[ret.k], 3).index = 2

\* C2: a set built from A (voting power 2) and B (voting power 1), both with
\* accum 0: after construction A is proposer and the accums are A = -1, B = 1;
\* after one more step B is proposer and the accums are A = 1, B = -1; and any
\* three consecutive single steps select A twice and B once.
IsTwoOne(a, b) ==
  /\ a # b /\ vs[1].alive /\ ~panicked
  /\ {<<m.Address, m.VotingPower>> : m \in MemberRecs(1)} = {<<a, 2>>, <<b, 1>>}

AccumOf(k, a) == (CHOOSE m \in MemberRecs(k) : m.Address = a).Accum

Count(q, x) == Cardinality({i \in 1..Len(q) : q[i] = x})

C2_TwoToOne ==
  \A a, b \in Addrs : IsTwoOne(a, b) =>
    LET n == Len(picks)
    IN /\ n >= 1
       /\ Proposer(mem, vs[1]).val.Address = picks[n]
       /\ n = 1 => picks[1] = a /\ AccumOf(1, a) = -1 /\ AccumOf(1, b) = 1
       /\ n = 2 => picks[2] = b /\ AccumOf(1, a) = 1 /\ AccumOf(1, b) = -1
       /\ \A i \in 1..(n - 2) :
            /\ Count(SubSeq(picks, i, i + 2), a) = 2
            /\ Count(SubSeq(picks, i, i + 2), b) = 1

C2_Witness ==
  \E a, b \in Addrs : a > b /\ IsTwoOne(a, b) /\ Len(picks) = 6

\* ---- VerifyCommit: the call in ret, its request and its commit
Verified == ret.op = "VerifyCommit"
Req == ret.arg
Slot(i) == ret.arg.commit.Precommits[i]
NSlots == Len(ret.arg.commit.Precommits)
Threshold == (PowerSum(1) * 2) \div 3

\* the slots whose precommit exists and names the requested block
Matching == {i \in 1..NSlots : Slot(i).exist /\ Slot(i).BlockID = Req.blockID}

\* the checks before the loop pass
HeaderOK == NSlots = Size(vs[1]) /\ Req.commit.height = Req.height

\* precommit i passes the checks on height, round and type / on the signature
FieldsOK(i) ==
  /\ Slot(i).Height = Req.height
  /\ Slot(i).Round = Req.commit.round
  /\ Slot(i).Type = "Precommit"
SignedOK(i) == Slot(i).Signature = Member(1, i).Address

AllOK == HeaderOK /\ \A i \in 1..NSlots : Slot(i).exist => FieldsOK(i) /\ SignedOK(i)

MatchingPower == SeqSum([i \in 1..NSlots |-> IF i \in Matching THEN Member(1, i).VotingPower ELSE 0])

\* C1: when every structural and signature check passes, VerifyCommit succeeds
\* if and only if the voting power of the precommits for the requested block
\* is greater than floor(total * 2 / 3), and otherwise fails with the
\* insufficient-voting-power error; with four validators of power 1 three
\* matching precommits succeed and two fail.
C1_QuorumIff ==
  (Verified /\ AllOK) =>
    /\ ret.err = "" <=> MatchingPower > Threshold
    /\ ret.err # "" => ret.err = "power"
    /\ (Size(vs[1]) = 4 /\ PowerSum(1) = 4) =>
         /\ Cardinality(Matching) = 3 => ret.err = ""
         /\ Cardinality(Matching) = 2 => ret.err = "power"

C1_Witness ==
  /\ Verified /\ AllOK /\ Size(vs[1]) = 4 /\ PowerSum(1) = 4
  /\ Cardinality(Matching) = 3 /\ ret.err = ""
  /\ \E i \in 1..NSlots : Slot(i).exist /\ i \notin Matching

\* C7: a precommit for another block adds nothing to the tally and does not
\* fail the call; but its signature is verified: when the signature is invalid
\* the call fails, whatever the other precommits tally, and the error is the
\* signature error when no earlier check of the call fails.
WrongBlockBadSig(i) ==
  HeaderOK /\ Slot(i).exist /\ Slot(i).BlockID # Req.blockID /\ ~SignedOK(i)

C7_WrongBlock ==
  Verified =>
    /\ AllOK => ret.n = MatchingPower
    /\ (AllOK /\ MatchingPower > Threshold) => ret.err = ""
    /\ \A i \in 1..NSlots :
         /\ WrongBlockBadSig(i) => ret.err \notin {"", "power"}
         /\ ( /\ WrongBlockBadSig(i) /\ FieldsOK(i)
              /\ \A j \in 1..(i - 1) : Slot(j).exist => FieldsOK(j) /\ SignedOK(j) )
            => ret.err = "signature"

\* the other precommits alone exceed two thirds
C7_Witness ==
  /\ Verified /\ HeaderOK /\ ret.err = "signature"
  /\ MatchingPower > Threshold
  /\ \E i \in 1..NSlots :
       Slot(i).exist /\ Slot(i).BlockID # Req.blockID /\ FieldsOK(i) /\ ~SignedOK(i)

\* C8: VerifyCommit fails, and not with the insufficient-voting-power error,
\* when the slot count differs from the set size, when the commit's height
\* differs from the requested height, and when some precommit that exists has
\* another height, another round than the commit's, another type than precommit
\* or a signature that does not verify against the validator of its index;
\* slots that are empty do not make it fail.
C8_DefectFails ==
  Verified =>
    /\ NSlots # Size(vs[1]) => ret.err = "size"
    /\ (NSlots = Size(vs[1]) /\ Req.commit.height # Req.height) => ret.err = "height"
    /\ (HeaderOK /\ \E i \in 1..NSlots : Slot(i).exist /\ ~(FieldsOK(i) /\ SignedOK(i)))
         => ret.err \in {"height", "round", "type", "signature"}
    /\ (AllOK /\ MatchingPower > Threshold) => ret.err = ""

\* a prevote among precommits that tally more than two thirds, next to an empty slot
C8_Witness ==
  /\ Verified /\ HeaderOK /\ ret.err = "type"
  /\ MatchingPower > Threshold
  /\ \E i \in 1..NSlots : ~Slot(i).exist

\* -------------------------------------------------------------------- C11
\* what a caller can observe of set j: the member records in order, the total
\* voting power and the record Proposer() returns
Observed(h, sets, j) ==
  [members |-> [i \in 1..Size(sets[j]) |-> h[sets[j].Validators[i]]],
   total |-> TotalVotingPower(h, sets[j]).total,
   proposer |-> Proposer(h, sets[j]).val]

Mutations == {"Add", "Update", "Remove", "IncrementAccum"}

\* a mutating call on one set leaves what is observable of the other set alone
C11_Step ==
  (nops' = nops + 1 /\ ret'.op \in Mutations) =>
    \A j \in SetIds \ {ret'.k} :
      (vs[j].alive /\ vs'[j].alive) => Observed(mem', vs', j) = Observed(mem, vs, j)

\* C11 as claimed: a set and its Copy() are independent: a mutating call on one
\* of them changes no member, not the total voting power and not the record
\* Proposer() returns (accum included) of the other.
C11_CopyIsDeepClone == [][C11_Step]_vars

\* =================================================== the handle specification
\* One set built by NewValidatorSet; the caller holds one validator object: one
\* it passed in (to NewValidatorSet, Add, Update) or one an accessor returned
\* (GetByAddress, GetByIndex, Proposer, Iterate), and writes its fields.

\* mutant: the accessor returns the member itself
HandOutInternal(h, id) == [h |-> h, id |-> id]

\* val.Copy() on the way out: the caller gets a fresh object
HandOut(h, id) == CopyVal(h, h[id])

\* Iterate(fn) with an fn that returns true (stop) at index `stop`: the objects
\* fn was called with, in order
RECURSIVE IterateLoop(_, _, _, _, _)
IterateLoop(h, vals, i, stop, out) ==
  IF i >= Len(vals) THEN [h |-> h, ids |-> out]
  ELSE LET c == HandOut(h, vals[i + 1])
       IN IF i = stop THEN [h |-> c.h, ids |-> Append(out, c.id)]
          ELSE IterateLoop(c.h, vals, i + 1, stop, Append(out, c.id))

Iterate(h, s, stop) == IterateLoop(h, s.Validators, 0, stop, <<>>)

\* the live objects: those the sets reach, then the caller's
ReachedH(sets, id) ==
  LET r == Reached(sets) IN IF id \in Range(r) \cup {Nil} THEN r ELSE Append(r, id)

Canon(h, sets, hd) ==
  LET order == ReachedH(sets, hd.id)
      pos(id) == IF id = Nil THEN Nil ELSE CHOOSE i \in 1..Len(order) : order[i] = id
  IN [vs |-> [k \in SetIds |->
                [sets[k] EXCEPT !.Validators = [i \in 1..Len(@) |-> pos(@[i])],
                                !.proposer = pos(@)]],
      mem |-> [i \in ObjIds |-> IF i <= Len(order) THEN h[order[i]] ELSE NoVal],
      handle |-> [hd EXCEPT !.id = pos(@)]]

\* the caller keeps element i of the list it passes to NewValidatorSet
InitH ==
  \E list \in InputLists(Addrs, Powers) : \E i \in 1..Len(list) :
    LET own == CopyVal(EmptyMem, list[i])
        r == NewValidatorSet(own.h, list, FALSE)
        c == Canon(r.h, [NoSets EXCEPT ![1] = r.s], [id |-> own.id, from |-> "NewValidatorSet"])
    IN /\ vs = c.vs /\ mem = c.mem /\ handle = c.handle
       /\ panicked = r.panic
       /\ ret = Ret("NewValidatorSet", 1, NoVal, ~r.panic, NoVal, 0)
       /\ filled = [k \in SetIds |-> IF k = 1 THEN "rotation" ELSE "none"]
       /\ picks = <<r.h[r.s.proposer].Address>>
       /\ nops = 0

\* the state after a call on set 1 that left memory h, the set s and the caller's object hd
DoneH(h, s, hd, r, f) ==
  LET c == Canon(h, [vs EXCEPT ![1] = s], hd)
  IN /\ vs' = c.vs /\ mem' = c.mem /\ handle' = c.handle
     /\ ret' = r
     /\ filled' = [filled EXCEPT ![1] = f]
     /\ nops' = nops + 1
     /\ UNCHANGED <<panicked, picks>>

HGetByAddress(address) ==
  /\ CanCall(1)
  /\ LET r == GetByAddress(mem, vs[1], address)
     IN /\ r.found
        /\ LET o == HandOut(mem, vs[1].Validators[r.index + 1])
           IN DoneH(o.h, vs[1], [id |-> o.id, from |-> "GetByAddress"],
                    Ret("GetByAddress", 1, Val(address, 0, 0), TRUE, r.val, r.index), filled[1])

HGetByIndex(index) ==
  /\ CanCall(1)
  /\ index < Size(vs[1])
  /\ LET r == GetByIndex(mem, vs[1], index)
         o == HandOut(mem, vs[1].Validators[index + 1])
     IN DoneH(o.h, vs[1], [id |-> o.id, from |-> "GetByIndex"],
              Ret("GetByIndex", 1, NoVal, TRUE, r.val, index), filled[1])

HProposer ==
  /\ CanCall(1)
  /\ LET r == Proposer(mem, vs[1])
     IN /\ r.s.proposer # Nil
        /\ LET o == HandOut(mem, r.s.proposer)
           IN DoneH(o.h, r.s, [id |-> o.id, from |-> "Proposer"],
                    Ret("Proposer", 1, NoVal, TRUE, r.val, 0),
                    IF vs[1].proposer = Nil THEN "scan" ELSE filled[1])

\* the caller keeps the object of the index at which its fn stops
HIterate(stop) ==
  /\ CanCall(1)
  /\ stop < Size(vs[1])
  /\ LET r == Iterate(mem, vs[1], stop)
     IN DoneH(r.h, vs[1], [id |-> r.ids[Len(r.ids)], from |-> "Iterate"],
              Ret("Iterate", 1, NoVal, TRUE, r.h[r.ids[Len(r.ids)]], stop), filled[1])

\* the caller makes a validator of its own
HNew(val) ==
  /\ CanCall(1)
  /\ LET o == CopyVal(mem, val)
     IN DoneH(o.h, vs[1], [id |-> o.id, from |-> "caller"],
              Ret("new", 1, val, TRUE, NoVal, 0), filled[1])

HAdd ==
  /\ CanCall(1)
  /\ handle.id # Nil
  /\ LET r == Add(mem, vs[1], mem[handle.id])
     IN DoneH(r.h, r.s, [handle EXCEPT !.from = IF r.ok THEN "Add" ELSE @],
              Ret("Add", 1, mem[handle.id], r.ok, NoVal, 0),
              IF r.ok THEN "none" ELSE filled[1])

HUpdate ==
  /\ CanCall(1)
  /\ handle.id # Nil
  /\ LET r == Update(mem, vs[1], mem[handle.id])
     IN DoneH(r.h, r.s, [handle EXCEPT !.from = IF r.ok THEN "Update" ELSE @],
              Ret("Update", 1, mem[handle.id], r.ok, NoVal, 0),
              IF r.ok THEN "none" ELSE filled[1])

\* the caller writes a field of the object it holds
HWrite(field) ==
  /\ CanCall(1)
  /\ handle.id # Nil
  /\ LET h == [mem EXCEPT ![handle.id] =
                 IF field = "Accum" THEN [@ EXCEPT !.Accum = @ + 1]
                 ELSE [@ EXCEPT !.VotingPower = @ + 1]]
     IN DoneH(h, vs[1], handle, Ret("write", 1, NoVal, TRUE, NoVal, 0), filled[1])

NextH ==
  \/ \E a \in Addrs : HGetByAddress(a)
  \/ \E i \in 0..(MaxAddr - 1) : HGetByIndex(i)
  \/ HProposer
  \/ \E i \in 0..(MaxAddr - 1) : HIterate(i)
  \/ \E val \in InVals : HNew(val)
  \/ HAdd
  \/ HUpdate
  \/ \E field \in {"Accum", "VotingPower"} : HWrite(field)

SpecH == InitH /\ [][NextH]_vars

\* -------------------------------------------------------------------- C12
C12_Step ==
  (nops' = nops + 1 /\ ret'.op = "write") => Observed(mem', vs', 1) = Observed(mem, vs, 1)

\* C12: a validator object the caller got from GetByAddress, GetByIndex,
\* Proposer or Iterate, or passed to NewValidatorSet, Add or Update, is no
\* object of the set: writing its accum or voting power changes no member and
\* not what Proposer() and TotalVotingPower() return afterwards.
C12_HandlesIndependent == [][C12_Step]_vars

\* the caller wrote the object Proposer() gave it; the member kept its fields
C12_Witness ==
  /\ ret.op = "write" /\ handle.from = "Proposer"
  /\ \E i \in 1..Size(vs[1]) :
       /\ Member(1, i).Address = mem[handle.id].Address
       /\ Member(1, i) # mem[handle.id]
       /\ vs[1].proposer = vs[1].Validators[i]

\* -------------------------------------------------------------------- C13
\* C13: for every set s, ValSetFromJsonBytes(s.JSONBytes()) has the same member
\* records in the same order as s, the same Hash() and the same
\* TotalVotingPower().
C13_RoundTrip ==
  \A k \in Alive :
    LET r == ValSetFromJsonBytes(mem, JSONBytes(mem, vs[k]))
    IN /\ [i \in 1..Size(r.s) |-> r.h[r.s.Validators[i]]] = MemberSeq(k)
       /\ Hash(r.h, r.s) = Hash(mem, vs[k])
       /\ TotalVotingPower(r.h, r.s).total = TotalVotingPower(mem, vs[k]).total

\* set 2 was read back from the text of a rotated set 1 of three members
C13_Witness ==
  /\ ret.op = "ValSetFromJsonBytes" /\ ret.n = 2 /\ vs[2].alive
  /\ Size(vs[1]) = 3 /\ MemberSeq(2) = MemberSeq(1)
  /\ \E i \in 1..3 : Member(1, i).Accum < 0
  /\ vs[1].proposer # Nil /\ vs[2].proposer = Nil
  /\ vs[1].totalVotingPower # 0 /\ vs[2].totalVotingPower = 0

\* -------------------------------------------------------------------- C14
\* C14 as claimed: a set built by NewValidatorSet or ValSetFromJsonBytes from
\* any list, whatever its order and even if an address occurs in it more than
\* once, is strictly sorted by ascending address: no address occurs twice.
C14_BuiltSortedUnique ==
  (ret.op \in {"NewValidatorSet", "ValSetFromJsonBytes"} /\ nops = 0) =>
    \A i, j \in 1..Size(vs[1]) : i < j => Member(1, i).Address < Member(1, j).Address

\* -------------------------------------------------------------------- C15
\* n calls IncrementAccum(1), one after the other
RECURSIVE StepByStep(_, _, _)
StepByStep(h, s, n) ==
  IF n = 0 THEN [h |-> h, s |-> s]
  ELSE LET r == IncrementAccum(h, s, 1) IN StepByStep(r.h, r.s, n - 1)

SameOutcome(a, b) ==
  /\ [i \in 1..Size(a.s) |-> a.h[a.s.Validators[i]]] = [i \in 1..Size(b.s) |-> b.h[b.s.Validators[i]]]
  /\ Proposer(a.h, a.s).val = Proposer(b.h, b.s).val

\* C15 as claimed: on every non-empty set IncrementAccum(n) leaves the accums
\* and the Proposer() that n calls IncrementAccum(1) leave.
C15_BatchEqualsSteps ==
  \A k \in Alive : Size(vs[k]) > 0 =>
    \A n \in 1..MaxTimes :
      SameOutcome(IncrementAccum(mem, vs[k], n), StepByStep(mem, vs[k], n))

\* -------------------------------------------------------------------- C16
\* the member with the greatest accum, on equal accum the one with the smallest address
GreatestId(h, vals) ==
  CHOOSE id \in Range(vals) :
    \A o \in Range(vals) :
      h[id].Accum > h[o].Accum \/ (h[id].Accum = h[o].Accum /\ h[id].Address <= h[o].Address)

\* the rotation loop with that member selected in every iteration
RECURSIVE SelectGreatest(_, _, _, _)
SelectGreatest(h, s, i, times) ==
  IF i >= times THEN [h |-> h, s |-> s]
  ELSE LET mostest == GreatestId(h, s.Validators)
           s1 == IF i = times - 1 THEN [s EXCEPT !.proposer = mostest] ELSE s
           t == TotalVotingPower(h, s1)
       IN SelectGreatest([h EXCEPT ![mostest].Accum = @ - t.total], t.s, i + 1, times)

ByGreatest(h, s, times) ==
  LET ids == Range(s.Validators)
      h1 == [i \in ObjIds |->
               IF i \in ids THEN [h[i] EXCEPT !.Accum = @ + h[i].VotingPower * times] ELSE h[i]]
  IN SelectGreatest(h1, s, 0, times)

\* C16 as claimed: every iteration of IncrementAccum selects and charges the
\* member with the greatest accum and, among several with the greatest accum,
\* the one with the smallest address, whatever the order of the queue.
C16_SelectsGreatest ==
  \A k \in Alive : Size(vs[k]) > 0 =>
    \A n \in 1..MaxTimes :
      SameOutcome(IncrementAccum(mem, vs[k], n), ByGreatest(mem, vs[k], n))

\* -------------------------------------------------------------------- C17
\* C17: a set built by NewValidatorSet from validators with accum 0 and total
\* voting power T, rotated by single steps (the construction being the first):
\* every T consecutive steps select each validator as often as its voting
\* power, and after every T steps every accum is 0 again.
C17_Frequency ==
  (Size(vs[1]) > 0 /\ ~panicked) =>
    LET T == PowerSum(1)
    IN /\ \A j \in T..Len(picks) : \A i \in 1..Size(vs[1]) :
            Count(SubSeq(picks, j - T + 1, j), Member(1, i).Address) = Member(1, i).VotingPower
       /\ Len(picks) % T = 0 => \A i \in 1..Size(vs[1]) : Member(1, i).Accum = 0

\* two full periods of three validators with powers 2, 1, 2
C17_Witness ==
  /\ MemberSeq(1) = <<Val(1, 2, 0), Val(2, 1, 0), Val(3, 2, 0)>>
  /\ Len(picks) = 10
  /\ SubSeq(picks, 1, 5) = SubSeq(picks, 6, 10)

\* -------------------------------------------------------------------- C18
AccumSum(h, s) == SeqSum([i \in 1..Size(s) |-> h[s.Validators[i]].Accum])

Holders(h, s) ==
  [i \in 1..Size(s) |-> <<h[s.Validators[i]].Address, h[s.Validators[i]].VotingPower>>]

\* IncrementAccum on a non-empty set keeps the sum of the accums, the members'
\* addresses and their voting powers
C18_Step ==
  (nops' = nops + 1 /\ ret'.op = "IncrementAccum" /\ Size(vs[ret'.k]) > 0) =>
    /\ ~panicked'
    /\ AccumSum(mem', vs'[ret'.k]) = AccumSum(mem, vs[ret'.k])
    /\ Holders(mem', vs'[ret'.k]) = Holders(mem, vs[ret'.k])

\* a set built from validators with accum 0 and only rotated since
C18_ZeroSum ==
  (nops <= 1 /\ ret.op \in {"NewValidatorSet", "IncrementAccum"}) => AccumSum(mem, vs[1]) = 0

\* C18: IncrementAccum(times) on a non-empty set leaves the sum of all accums,
\* the membership, the addresses and the voting powers as they were; a set built
\* from validators with accum 0 and only rotated has accum sum 0.
C18_SumConserved == []C18_ZeroSum /\ [][C18_Step]_vars

\* two steps at once on three validators, after an Update that made the sum non-zero
C18_Witness ==
  /\ ret.op = "IncrementAccum" /\ ret.ok /\ ret.n = 2 /\ nops = 2
  /\ Size(vs[ret.k]) = 3
  /\ AccumSum(mem, vs[ret.k]) = 1

\* -------------------------------------------------------------------- C19
\* C19: VerifyCommit, whatever it returns, leaves the members with their voting
\* powers and accums, the proposer cache and what Proposer() returns as they
\* were; the one field it may write is the total voting power cache, filled
\* with the sum of the voting powers.
C19_Step ==
  (nops' = nops + 1 /\ ret'.op = "VerifyCommit") =>
    /\ Observed(mem', vs', 1) = Observed(mem, vs, 1)
    /\ \/ vs'[1] = vs[1]
       \/ vs[1].totalVotingPower = 0 /\ vs'[1] = [vs[1] EXCEPT !.totalVotingPower = PowerSum(1)]

C19_ReadOnly == [][C19_Step]_vars

\* the call filled the total cache of a set read from JSON and found a quorum
C19_Witness ==
  /\ Verified /\ ret.err = ""
  /\ Size(vs[1]) = 3 /\ vs[1].proposer = Nil
  /\ vs[1].totalVotingPower = PowerSum(1)

\* -------------------------------------------------------------------- C20
\* what the calls return on a set without members
EmptyResults(k) ==
  /\ Proposer(mem, vs[k]).val = NoVal
  /\ TotalVotingPower(mem, vs[k]).total = 0
  /\ VerifyCommit(mem, vs[k], 1, 1, Commit(1, 0, <<>>)).err = "power"

\* C20 as claimed: no call on a set without members faults: NewValidatorSet of
\* an empty list that is not nil and IncrementAccum on a set that Remove
\* emptied return normally, and then Proposer() returns no validator,
\* TotalVotingPower() returns 0 and VerifyCommit of an empty commit fails with
\* insufficient voting power.
C20_EmptyNeverFaults ==
  /\ ~panicked
  /\ \A k \in Alive : Size(vs[k]) = 0 => EmptyResults(k)

====
